---- MODULE Spec2Model ----
(***************************************************************************)
(* Model of backend-gpt/src/index.ts: the three HTTP handlers              *)
(* (GET /oauth/callback, POST /webhook, GET /protected behind the          *)
(* authentication middleware) running concurrently against the User table  *)
(* of the migration (unique index on email).  Every await on the database  *)
(* or on an external service is a step boundary, so requests interleave    *)
(* exactly where the code can be suspended.                                *)
(***************************************************************************)
EXTENDS Integers, Sequences, FiniteSets, TLC

\* ---------------------------------------------------------------- bounds
MaxIds == 2          \* ids the id generator can hand out
MaxTime == 1         \* the clock runs 0..MaxTime
MaxRequests == 2     \* requests that arrive
MaxSlots == 2        \* requests in flight at the same time

\* ------------------------------------------------------ program constants
FREE_QUOTA == 4      \* index.ts:158  user.requestCount < 4
DayTicks == 1        \* index.ts:103  getDate() + 1, one day in clock ticks

Ids == 1..MaxIds
Slots == 1..MaxSlots
Emails == {"a@x", "b@x"}
BadCode == "bad-code"
Codes == Emails \cup {BadCode}
NullDate == 0 - 1    \* paidUntil IS NULL
NullRef == 0         \* client_reference_id is null
Keys == {"secret", "forged"}
JWT_SECRET == "secret"
STRIPE_WEBHOOK_SECRET == "secret"
EventTypes == {"checkout.session.completed", "payment_intent.succeeded"}
googleAuthURL == "https://accounts.google.com/o/oauth2/v2/auth"

VARIABLES
    users,       \* the User table: id -> row, DOMAIN users = ids that have a row
    clock,       \* wall clock, what new Date() returns
    req,         \* slot -> the request being handled there (locals and response)
    cookies,     \* session cookies the server has issued (Set-Cookie)
    sessions,    \* client_reference_id of every checkout session created
    left,        \* number of requests still to arrive
    allowCount,  \* history: id -> number of 'You are authenticated' responses
    denyCount,   \* history: id -> number of 'Payment required' responses
    overlap,     \* history: id -> two /protected requests of id were in flight together
    paidAt       \* history: id -> new Date() of the completion whose write is in the row

vars == <<users, clock, req, cookies, sessions, left, allowCount, denyCount,
          overlap, paidAt>>

\* ------------------------------------------------------------ the ledger
\* a new row that counts the sign-in as a request
NewUserCounted(email, now) ==
    [email |-> email, requestCount |-> 1, lastLogin |-> now, paidUntil |-> NullDate]

\* CREATE TABLE "User": requestCount DEFAULT 0, paidUntil absent
NewUser(email, now) ==
    [email |-> email, requestCount |-> 0, lastLogin |-> now, paidUntil |-> NullDate]

\* prisma.user.findUnique({ where: { email } }): the ids whose row has that email
FindByEmail(table, email) == {i \in DOMAIN table : table[i].email = email}

\* CREATE UNIQUE INDEX "User_email_key": an insert of a taken email is rejected
EmailIsFree(table, email) == FindByEmail(table, email) = {}

\* the id the generator gives a new row: one no row has
FreshId(table) == CHOOSE i \in Ids : i \notin DOMAIN table /\ \A j \in Ids \ DOMAIN table : i <= j

Insert(table, id, row) ==
    [i \in DOMAIN table \cup {id} |-> IF i = id THEN row ELSE table[i]]

\* prisma.user.update({ where: { id }, data }): the row's fields overwritten by data
UpdateRow(table, id, row) == [table EXCEPT ![id] = row]

\* the increment computed from the handler's snapshot and written back
RecordFromSnapshot(row, snapCount, now) ==
    [row EXCEPT !.requestCount = snapCount + 1, !.lastLogin = now]

\* the update also clearing the paid window
RecordAndClearPaid(row, snapCount, now) ==
    [row EXCEPT !.requestCount = row.requestCount + 1, !.lastLogin = now,
                !.paidUntil = NullDate]

\* data: { requestCount: { increment: 1 }, lastLogin: now }: the increment is
\* applied by the database to the stored value, not to the handler's snapshot
RecordAllowedRequest(row, snapCount, now) ==
    [row EXCEPT !.requestCount = row.requestCount + 1, !.lastLogin = now]

\* the payment also giving the free quota back
ExtendAndResetQuota(row, endOfDay) ==
    [row EXCEPT !.paidUntil = endOfDay, !.requestCount = 0]

\* data: { paidUntil: endOfDay }
ExtendPaidUntil(row, endOfDay) == [row EXCEPT !.paidUntil = endOfDay]

\* ------------------------------------------------------------ credentials
\* sign({ userId }, JWT_SECRET)
Sign(userId, secret) == [userId |-> userId, key |-> secret]

\* setSignedCookie(c, 'token', token, JWT_SECRET, ...)
SignedCookie(token, secret) == [token |-> token, sig |-> secret]

\* a request without a 'token' cookie
NoCookie == [token |-> [userId |-> NullRef, key |-> "none"], sig |-> "none"]

\* getSignedCookie(c, JWT_SECRET, 'token') is truthy
CookieVerifies(cookie, secret) == cookie # NoCookie /\ cookie.sig = secret

\* a middleware that decodes the token without checking its signature
TokenDecodes(token, secret) == token.key \in Keys

\* verify(token, JWT_SECRET) does not throw
TokenVerifies(token, secret) == token.key = secret

\* what a client can send: no cookie, a cookie the server issued, or one put
\* together without the server for some user (its cookie signature or its
\* token is not made with the server's secret)
AllCookies == {SignedCookie(Sign(u, k), k2) : u \in DOMAIN users, k \in Keys, k2 \in Keys}
ForgedCookies == {c \in AllCookies : c.sig = "forged" \/ c.token.key = "forged"}
ClientCookies == {NoCookie} \cup cookies \cup ForgedCookies

\* ---------------------------------------------------------- webhook events
Payloads == [type : EventTypes, ref : Ids \cup {NullRef}]
\* a payload with a byte changed after it was signed
Tampered(payload) ==
    [payload EXCEPT !.type = CHOOSE t \in EventTypes : t # payload.type]
\* the stripe-signature header: which secret signed which payload
Signatures == [key : Keys, signed : Payloads]
\* a request carries a payload and a signature of it or of what it was
\* before tampering, made with the provider's secret or with another one
WebhookRequests ==
    UNION {{[payload |-> p, sig |-> [key |-> k, signed |-> q]] :
                k \in Keys, q \in {p, Tampered(p)}} : p \in Payloads}

\* a check of the signing secret that does not compare the signed bytes
SignatureKeyOnly(rawBody, sig, secret) == sig.key = secret

\* Stripe.webhooks.constructEventAsync(rawBody, sig, secret) does not throw
SignatureVerifies(rawBody, sig, secret) == sig.key = secret /\ sig.signed = rawBody

\* every verified event taken for a completed checkout
IsAnyEvent(type) == type \in EventTypes

\* event.type === 'checkout.session.completed'
IsCompletedCheckout(type) == type = "checkout.session.completed"

\* endOfDay left at new Date()
EndOfDayNotAdvanced(now) == now

\* endOfDay.setDate(endOfDay.getDate() + 1)
EndOfDay(now) == now + DayTicks

\* ------------------------------------------------------ the access decision
\* the decision without the paid window
DecideQuotaOnly(requestCount, paidUntil, now) ==
    IF requestCount < FREE_QUOTA THEN "ALLOW" ELSE "REQUIRE_PAYMENT"

\* the decision with <= in place of <
DecideOffByOne(requestCount, paidUntil, now) ==
    IF requestCount <= FREE_QUOTA \/ (paidUntil # NullDate /\ paidUntil > now)
    THEN "ALLOW"
    ELSE "REQUIRE_PAYMENT"

\* user.requestCount < 4 || user.paidUntil && user.paidUntil > now
Decide(requestCount, paidUntil, now) ==
    IF requestCount < FREE_QUOTA \/ (paidUntil # NullDate /\ paidUntil > now)
    THEN "ALLOW"
    ELSE "REQUIRE_PAYMENT"

\* --------------------------------------------------------------- requests
Idle ==
    [kind |-> "idle", pc |-> "idle", email |-> "", userId |-> NullRef,
     snapCount |-> 0, snapPaid |-> NullDate, now |-> 0, endOfDay |-> NullDate,
     cookie |-> NoCookie, evType |-> "", genuine |-> FALSE, verified |-> FALSE,
     status |-> 0, body |-> "", signInUrl |-> "", sessionRef |-> NullRef,
     created |-> FALSE]

\* c.json(...) / c.redirect(...): the handler is over
Respond(r, status, body) == [r EXCEPT !.pc = "done", !.status = status, !.body = body]

\* stripe.checkout.sessions.create({ ..., client_reference_id: userId }): the
\* client reference the session carries
CheckoutSessionRef(userId) == userId

\* the REQUIRE_PAYMENT response without the session's url
PaymentRequiredWithoutUrl(r, sessionRef) ==
    Respond(r, 200, "Payment required")

\* c.json({ error: 'Payment required', stripeSessionUrl: session.url })
PaymentRequired(r, sessionRef) ==
    Respond([r EXCEPT !.sessionRef = sessionRef], 200, "Payment required")

\* a new request is taken by the lowest free slot (slots are interchangeable)
Free(s) == req[s].kind = "idle" /\ \A t \in Slots : req[t].kind = "idle" => s <= t

InFlight(s) == req[s].kind # "idle" /\ req[s].pc # "done"

\* the state after deployment: an empty table, nothing issued
Init ==
    /\ users = <<>>
    /\ clock = 0
    /\ req = [s \in Slots |-> Idle]
    /\ cookies = {}
    /\ sessions = {}
    /\ left = MaxRequests
    /\ allowCount = [i \in Ids |-> 0]
    /\ denyCount = [i \in Ids |-> 0]
    /\ overlap = [i \in Ids |-> FALSE]
    /\ paidAt = [i \in Ids |-> NullDate]

\* sign-in traffic only
InitSignIn ==
    /\ users = <<>>
    /\ clock = 0
    /\ req = [s \in Slots |-> Idle]
    /\ cookies = {}
    /\ sessions = {}
    /\ left = MaxRequests
    /\ allowCount = [i \in Ids |-> 0]
    /\ denyCount = [i \in Ids |-> 0]
    /\ overlap = [i \in Ids |-> FALSE]
    /\ paidAt = [i \in Ids |-> NullDate]

UserEmail(i) == IF i = 1 THEN "a@x" ELSE "b@x"

\* the service after sign-ins and some allowed requests made one after
\* another: users 1..n hold a row and a session cookie, nobody has paid, the
\* first user has used k requests of the free quota and was answered
\* 'You are authenticated' k times
InitLedger ==
    \E n \in {Cardinality(Emails)}, k \in 0..FREE_QUOTA :
        /\ users = [i \in 1..n |->
                      [NewUser(UserEmail(i), 0)
                         EXCEPT !.requestCount = IF i = 1 THEN k ELSE 0]]
        /\ clock = 0
        /\ req = [s \in Slots |-> Idle]
        /\ cookies = {SignedCookie(Sign(i, JWT_SECRET), JWT_SECRET) : i \in 1..n}
        /\ sessions = {}
        /\ left = MaxRequests
        /\ allowCount = [i \in Ids |-> IF i = 1 THEN k ELSE 0]
        /\ denyCount = [i \in Ids |-> 0]
        /\ overlap = [i \in Ids |-> FALSE]
        /\ paidAt = [i \in Ids |-> NullDate]

\* the service with one returning user: the first user holds a row and a
\* session cookie, has one request of the free quota left or none, and either
\* never paid or paid at time 0; the second email has not signed in yet
InitService ==
    \E k \in (FREE_QUOTA - 1)..FREE_QUOTA, paid \in {NullDate, 0} :
        /\ users = [i \in {1} |->
                      [NewUser(UserEmail(i), 0)
                         EXCEPT !.requestCount = k,
                                !.paidUntil = IF paid = NullDate THEN NullDate
                                              ELSE EndOfDay(paid)]]
        /\ clock = 0
        /\ req = [s \in Slots |-> Idle]
        /\ cookies = {SignedCookie(Sign(1, JWT_SECRET), JWT_SECRET)}
        /\ sessions = {}
        /\ left = MaxRequests
        /\ allowCount = [i \in Ids |-> IF i = 1 THEN k ELSE 0]
        /\ denyCount = [i \in Ids |-> 0]
        /\ overlap = [i \in Ids |-> FALSE]
        /\ paidAt = [i \in Ids |-> IF i = 1 THEN paid ELSE NullDate]

\* ------------------------------------------------- GET /oauth/callback
\* lines 36-55: the code is exchanged for a token and the token for the
\* account's email; a code the identity provider rejects makes axios throw
OAuthStart(s, code) ==
    /\ Free(s)
    /\ left > 0
    /\ left' = left - 1
    /\ LET r == [Idle EXCEPT !.kind = "oauth"]
       IN req' = [req EXCEPT ![s] =
                    IF code = BadCode
                    THEN Respond(r, 500, "OAuth callback failed")
                    ELSE [r EXCEPT !.pc = "find", !.email = code]]
    /\ UNCHANGED <<users, clock, cookies, sessions, allowCount, denyCount, overlap, paidAt>>

\* line 57: let user = await prisma.user.findUnique({ where: { email } })
OAuthFind(s) ==
    /\ req[s].kind = "oauth" /\ req[s].pc = "find"
    /\ LET found == FindByEmail(users, req[s].email)
       IN req' = [req EXCEPT ![s] =
                    IF found = {}
                    THEN [@ EXCEPT !.pc = "create"]
                    ELSE [@ EXCEPT !.pc = "sign", !.userId = CHOOSE i \in found : TRUE]]
    /\ UNCHANGED <<users, clock, cookies, sessions, left, allowCount, denyCount,
                   overlap, paidAt>>

\* lines 58-62: user = await prisma.user.create({ data: { email } }); the unique
\* index rejects a taken email, the rejection is caught at line 74
OAuthCreate(s) ==
    /\ req[s].kind = "oauth" /\ req[s].pc = "create"
    /\ IF EmailIsFree(users, req[s].email)
       THEN LET id == FreshId(users)
            IN /\ users' = Insert(users, id, NewUser(req[s].email, clock))
               /\ req' = [req EXCEPT ![s] = [@ EXCEPT !.pc = "sign", !.userId = id,
                                                     !.created = TRUE]]
       ELSE /\ users' = users
            /\ req' = [req EXCEPT ![s] = Respond(@, 500, "OAuth callback failed")]
    /\ UNCHANGED <<clock, cookies, sessions, left, allowCount, denyCount, overlap, paidAt>>

\* lines 64-73: sign the token, set the signed cookie, redirect
OAuthSign(s) ==
    /\ req[s].kind = "oauth" /\ req[s].pc = "sign"
    /\ LET cookie == SignedCookie(Sign(req[s].userId, JWT_SECRET), JWT_SECRET)
       IN /\ cookies' = cookies \cup {cookie}
          /\ req' = [req EXCEPT ![s] = Respond([@ EXCEPT !.cookie = cookie], 302, "redirect")]
    /\ UNCHANGED <<users, clock, sessions, left, allowCount, denyCount, overlap, paidAt>>

\* ------------------------------------------------------- POST /webhook
\* lines 80-103: verify the signature (400 when it fails); for a completed
\* checkout take the client reference and compute endOfDay from new Date()
WebhookStart(s, w) ==
    /\ Free(s)
    /\ left > 0
    /\ left' = left - 1
    /\ LET r == [Idle EXCEPT !.kind = "webhook", !.evType = w.payload.type,
                             !.userId = w.payload.ref,
                             !.genuine = (w.sig = [key |-> "secret", signed |-> w.payload])]
       IN req' = [req EXCEPT ![s] =
                    IF ~SignatureVerifies(w.payload, w.sig, STRIPE_WEBHOOK_SECRET)
                    THEN Respond(r, 400, "Webhook signature verification failed.")
                    ELSE IF IsCompletedCheckout(w.payload.type)
                    THEN [r EXCEPT !.verified = TRUE, !.pc = "update", !.now = clock,
                                   !.endOfDay = EndOfDay(clock)]
                    ELSE Respond([r EXCEPT !.verified = TRUE], 200, "received")]
    /\ UNCHANGED <<users, clock, cookies, sessions, allowCount, denyCount, overlap, paidAt>>

\* lines 105-115: await prisma.user.update({ where: { id: userId }, data: {
\* paidUntil: endOfDay } }); update rejects when no row has that id, nothing
\* in the handler catches it and the framework answers 500
WebhookUpdate(s) ==
    /\ req[s].kind = "webhook" /\ req[s].pc = "update"
    /\ LET id == req[s].userId
       IN IF id \in DOMAIN users
          THEN /\ users' = UpdateRow(users, id, ExtendPaidUntil(users[id], req[s].endOfDay))
               /\ paidAt' = [paidAt EXCEPT ![id] = req[s].now]
               /\ req' = [req EXCEPT ![s] = Respond(@, 200, "received")]
          ELSE /\ UNCHANGED <<users, paidAt>>
               /\ req' = [req EXCEPT ![s] = Respond(@, 500, "Internal Server Error")]
    /\ UNCHANGED <<clock, cookies, sessions, left, allowCount, denyCount, overlap>>

\* ------------------------------------- middleware and GET /protected
\* lines 118-137: no cookie (or a cookie signature that does not verify) is
\* 401 'User not authenticated'; a token that does not verify is 401
\* 'Invalid token'; otherwise userId is the token's and the handler runs
ProtectedStart(s, cookie) ==
    /\ Free(s)
    /\ left > 0
    /\ left' = left - 1
    /\ LET r == [Idle EXCEPT !.kind = "protected", !.cookie = cookie]
           id == cookie.token.userId
       IN IF ~CookieVerifies(cookie, JWT_SECRET)
          THEN /\ req' = [req EXCEPT ![s] =
                            Respond([r EXCEPT !.signInUrl = googleAuthURL], 401,
                                    "User not authenticated")]
               /\ overlap' = overlap
          ELSE IF ~TokenVerifies(cookie.token, JWT_SECRET)
          THEN /\ req' = [req EXCEPT ![s] =
                            Respond([r EXCEPT !.signInUrl = googleAuthURL], 401,
                                    "Invalid token")]
               /\ overlap' = overlap
          ELSE /\ req' = [req EXCEPT ![s] = [r EXCEPT !.pc = "find", !.userId = id]]
               /\ overlap' =
                    IF id \in Ids /\ \E t \in Slots : /\ InFlight(t)
                                                      /\ req[t].kind = "protected"
                                                      /\ req[t].userId = id
                    THEN [overlap EXCEPT ![id] = TRUE]
                    ELSE overlap
    /\ UNCHANGED <<users, clock, cookies, sessions, allowCount, denyCount, paidAt>>

\* lines 145-147: const user = await prisma.user.findUnique({ where: { id } })
ProtectedFind(s) ==
    /\ req[s].kind = "protected" /\ req[s].pc = "find"
    /\ LET id == req[s].userId
       IN req' = [req EXCEPT ![s] =
                    IF id \notin DOMAIN users
                    THEN Respond(@, 404, "User not found")
                    ELSE [@ EXCEPT !.pc = "decide",
                                   !.snapCount = users[id].requestCount,
                                   !.snapPaid = users[id].paidUntil]]
    /\ UNCHANGED <<users, clock, cookies, sessions, left, allowCount, denyCount,
                   overlap, paidAt>>

\* lines 149-158: const now = new Date(); the decision over the snapshot
ProtectedDecide(s) ==
    /\ req[s].kind = "protected" /\ req[s].pc = "decide"
    /\ req' = [req EXCEPT ![s] =
                 [@ EXCEPT !.now = clock,
                           !.pc = IF Decide(req[s].snapCount, req[s].snapPaid, clock) = "ALLOW"
                                  THEN "update"
                                  ELSE "checkout"]]
    /\ UNCHANGED <<users, clock, cookies, sessions, left, allowCount, denyCount,
                   overlap, paidAt>>

\* lines 159-163: the ALLOW branch
ProtectedUpdate(s) ==
    /\ req[s].kind = "protected" /\ req[s].pc = "update"
    /\ LET id == req[s].userId
       IN IF id \in DOMAIN users
          THEN /\ users' = UpdateRow(users, id,
                              RecordAllowedRequest(users[id], req[s].snapCount, req[s].now))
               /\ allowCount' = [allowCount EXCEPT ![id] = @ + 1]
               /\ req' = [req EXCEPT ![s] = Respond(@, 200, "You are authenticated")]
          ELSE /\ UNCHANGED <<users, allowCount>>
               /\ req' = [req EXCEPT ![s] = Respond(@, 500, "Internal Server Error")]
    /\ UNCHANGED <<clock, cookies, sessions, left, denyCount, overlap, paidAt>>

\* lines 164-187: the REQUIRE_PAYMENT branch creates a checkout session with
\* client_reference_id: userId and returns its url
ProtectedCheckout(s) ==
    /\ req[s].kind = "protected" /\ req[s].pc = "checkout"
    /\ LET id == req[s].userId
       IN /\ sessions' = sessions \cup {CheckoutSessionRef(id)}
          /\ denyCount' = [denyCount EXCEPT ![id] = @ + 1]
          /\ req' = [req EXCEPT ![s] = PaymentRequired(@, CheckoutSessionRef(id))]
    /\ UNCHANGED <<users, clock, cookies, left, allowCount, overlap, paidAt>>

\* ------------------------------------------------------------ environment
\* the response has been delivered, the slot takes the next request
Retire(s) ==
    /\ req[s].pc = "done"
    /\ req' = [req EXCEPT ![s] = Idle]
    /\ UNCHANGED <<users, clock, cookies, sessions, left, allowCount, denyCount,
                   overlap, paidAt>>

\* time passes
Tick ==
    /\ clock < MaxTime
    /\ clock' = clock + 1
    /\ UNCHANGED <<users, req, cookies, sessions, left, allowCount, denyCount,
                   overlap, paidAt>>

SignIn ==
    \/ \E s \in Slots, code \in Codes : OAuthStart(s, code)
    \/ \E s \in Slots : OAuthFind(s)
    \/ \E s \in Slots : OAuthCreate(s)
    \/ \E s \in Slots : OAuthSign(s)

Payment ==
    \/ \E s \in Slots, w \in WebhookRequests : WebhookStart(s, w)
    \/ \E s \in Slots : WebhookUpdate(s)

Access ==
    \/ \E s \in Slots, cookie \in ClientCookies : ProtectedStart(s, cookie)
    \/ \E s \in Slots : ProtectedFind(s)
    \/ \E s \in Slots : ProtectedDecide(s)
    \/ \E s \in Slots : ProtectedUpdate(s)
    \/ \E s \in Slots : ProtectedCheckout(s)

Environment ==
    \/ \E s \in Slots : Retire(s)
    \/ Tick

Next == SignIn \/ Payment \/ Access \/ Environment

\* ----------------------------------------------- failing external calls
\* lines 38-76: whatever is awaited inside the try block rejects (the ledger
\* lookup, the creation, sign or setSignedCookie); the catch at lines 74-76
\* answers 500 { error: 'OAuth callback failed' }
OAuthFails(s) ==
    /\ req[s].kind = "oauth" /\ req[s].pc \in {"find", "create", "sign"}
    /\ req' = [req EXCEPT ![s] = Respond(@, 500, "OAuth callback failed")]
    /\ UNCHANGED <<users, clock, cookies, sessions, left, allowCount, denyCount,
                   overlap, paidAt>>

\* lines 105-110: prisma.user.update rejects (the database cannot be reached);
\* the call is outside every try block, the framework's error handler answers
\* 500 'Internal Server Error'
WebhookFails(s) ==
    /\ req[s].kind = "webhook" /\ req[s].pc = "update"
    /\ req' = [req EXCEPT ![s] = Respond(@, 500, "Internal Server Error")]
    /\ UNCHANGED <<users, clock, cookies, sessions, left, allowCount, denyCount,
                   overlap, paidAt>>

\* lines 145, 159 and 166: findUnique, update or stripe.checkout.sessions.create
\* rejects; the handler has no try block, the framework's error handler
\* answers 500 'Internal Server Error'
ProtectedFails(s) ==
    /\ req[s].kind = "protected" /\ req[s].pc \in {"find", "update", "checkout"}
    /\ req' = [req EXCEPT ![s] = Respond(@, 500, "Internal Server Error")]
    /\ UNCHANGED <<users, clock, cookies, sessions, left, allowCount, denyCount,
                   overlap, paidAt>>

Faults ==
    \/ \E s \in Slots : OAuthFails(s)
    \/ \E s \in Slots : WebhookFails(s)
    \/ \E s \in Slots : ProtectedFails(s)

NextFaults == Next \/ Faults

NextSignIn == SignIn \/ Environment

NextLedger == Payment \/ Access \/ Environment

\* the whole service from deployment
Spec == Init /\ [][Next]_vars

\* concurrent sign-ins against an empty table
SpecSignIn == InitSignIn /\ [][NextSignIn]_vars

\* signed-in users' requests and payment notifications, all interleavings
SpecLedger == InitLedger /\ [][NextLedger]_vars

\* sign-ins, requests and payment notifications of a returning user and a new
\* one, all interleavings
SpecService == InitService /\ [][Next]_vars

\* the same with external calls that may fail
SpecFaults == InitService /\ [][NextFaults]_vars

\* ------------------------------------------------------------- properties
\* slot s holds a GET /protected request whose decision has been taken
Decided(s) ==
    /\ req[s].kind = "protected"
    /\ \/ req[s].pc \in {"update", "checkout"}
       \/ req[s].pc = "done" /\ req[s].body \in {"You are authenticated", "Payment required"}

\* the decision taken in slot s was ALLOW
Allowed(s) == req[s].pc = "update" \/ req[s].body = "You are authenticated"

\* a GET /protected request of user u is being handled
ProtectedInFlight(u) ==
    \E s \in Slots : InFlight(s) /\ req[s].kind = "protected" /\ req[s].userId = u

\* C1: the decision of GET /protected is ALLOW exactly when the snapshot's
\* requestCount is below 4 or its paidUntil is present and later than now,
\* and REQUIRE_PAYMENT in every other case
C1_DecisionRule ==
    \A s \in Slots :
        Decided(s) =>
            /\ Allowed(s) <=>
                  \/ req[s].snapCount < 4
                  \/ req[s].snapPaid # NullDate /\ req[s].snapPaid > req[s].now
            /\ ~Allowed(s) <=> (req[s].pc = "checkout" \/ req[s].body = "Payment required")

\* a user over the quota inside a paid window has been answered ALLOW
C1_Witness ==
    \E s \in Slots :
        /\ Decided(s) /\ req[s].pc = "done" /\ req[s].body = "You are authenticated"
        /\ req[s].snapCount >= 4
        /\ req[s].snapPaid > req[s].now

\* C2: a user whose paidUntil was never set is answered 'You are
\* authenticated' at most 4 times, whatever the interleaving of the requests
C2_FreeQuotaNeverExceeded ==
    \A u \in DOMAIN users :
        (paidAt[u] = NullDate /\ users[u].paidUntil = NullDate) => allowCount[u] <= 4

\* C3: once no GET /protected request of a user is in flight, the user's
\* requestCount is the number of ALLOW responses the user was given (a new
\* user starts at 0): every ALLOW counted once, no update lost
C3_NoLostUpdate ==
    \A u \in DOMAIN users :
        ~ProtectedInFlight(u) => users[u].requestCount = allowCount[u]

\* two requests of one user that were in flight together have both been allowed
C3_Witness ==
    \E u \in DOMAIN users :
        /\ overlap[u]
        /\ ~ProtectedInFlight(u)
        /\ \A s \in Slots : req[s].kind = "protected" /\ req[s].userId = u
                            /\ req[s].body = "You are authenticated"
        /\ users[u].requestCount >= 2

\* no two rows hold the same email
UniqueEmails ==
    \A i, j \in DOMAIN users : users[i].email = users[j].email => i = j

\* C4: concurrent get-or-create for one email never leaves two rows with
\* that email, and every execution that got an email from the identity
\* provider ends signed in with a credential bound to the row of that email
\* (the one whose create lost observes the winner's row)
C4_ConcurrentGetOrCreate ==
    /\ UniqueEmails
    /\ \A s \in Slots :
          (req[s].kind = "oauth" /\ req[s].pc = "done" /\ req[s].email # "") =>
              /\ req[s].status = 302
              /\ req[s].userId \in FindByEmail(users, req[s].email)
              /\ req[s].cookie = SignedCookie(Sign(req[s].userId, JWT_SECRET), JWT_SECRET)

\* C5: no step replaces a user's paidUntil by an earlier value
C5_PaidUntilOnlyAdvances ==
    [][\A u \in DOMAIN users : users'[u].paidUntil >= users[u].paidUntil]_vars

\* C6: a POST /webhook whose signature is not the provider's signature of
\* the payload it carries is answered 400 and none of its steps changes
\* any field of any User row, whatever its event type and client reference
C6_TamperedWebhookRejected ==
    [][\A s \in Slots :
          (req'[s] # req[s] /\ req'[s].kind = "webhook" /\ ~req'[s].genuine) =>
              /\ req'[s].pc = "done"
              /\ req'[s].status = 400
              /\ users' = users]_vars

\* a tampered completed-checkout notification naming an existing user was rejected
C6_Witness ==
    \E s \in Slots :
        /\ req[s].kind = "webhook" /\ ~req[s].genuine
        /\ req[s].evType = "checkout.session.completed"
        /\ req[s].userId \in DOMAIN users
        /\ req[s].status = 400
        /\ users[req[s].userId].paidUntil = NullDate

\* C7: every POST /webhook whose signature verified is answered
\* 200 {received: true}, also when its client reference names no User row
C7_VerifiedWebhookAcknowledged ==
    \A s \in Slots :
        (req[s].kind = "webhook" /\ req[s].verified /\ req[s].pc = "done") =>
            (req[s].status = 200 /\ req[s].body = "received")

\* C8: the paidUntil a completed checkout leaves in the row is the time the
\* notification was processed plus one day, and a GET /protected request
\* that read that paidUntil and decides strictly before it is allowed
\* whatever the requestCount it read
C8_PaidWindowGrantsAccess ==
    /\ \A u \in DOMAIN users :
          paidAt[u] # NullDate => users[u].paidUntil = paidAt[u] + DayTicks
    /\ \A s \in Slots :
          (Decided(s) /\ req[s].snapPaid # NullDate /\ req[s].now < req[s].snapPaid)
              => Allowed(s)

\* after a completed checkout a user over the quota was answered ALLOW
C8_Witness ==
    \E s \in Slots :
        /\ req[s].kind = "protected" /\ req[s].pc = "done"
        /\ req[s].body = "You are authenticated"
        /\ req[s].snapCount >= FREE_QUOTA
        /\ paidAt[req[s].userId] # NullDate
        /\ req[s].snapPaid = paidAt[req[s].userId] + DayTicks
        /\ req[s].now < req[s].snapPaid

\* C9: for a user who has not paid and whose requests came one after
\* another, requests are allowed while requestCount goes 0, 1, 2, 3 to 4 and
\* are answered REQUIRE_PAYMENT from then on, with requestCount staying at 4
C9_SequentialQuota ==
    \A u \in DOMAIN users :
        (~overlap[u] /\ paidAt[u] = NullDate) =>
            /\ allowCount[u] <= 4
            /\ users[u].requestCount = allowCount[u]
            /\ denyCount[u] > 0 => allowCount[u] = 4
            /\ \A s \in Slots :
                  (req[s].kind = "protected" /\ req[s].userId = u /\ req[s].pc = "done") =>
                      /\ req[s].body = "You are authenticated" =>
                            /\ req[s].snapCount < 4
                            /\ users[u].requestCount > req[s].snapCount
                      /\ req[s].body = "Payment required" =>
                            /\ req[s].snapCount = 4
                            /\ users[u].requestCount = 4

\* the fourth request was allowed and the next one was answered REQUIRE_PAYMENT
C9_Witness ==
    \E u \in DOMAIN users, s \in Slots :
        /\ ~overlap[u] /\ paidAt[u] = NullDate
        /\ left = 0
        /\ allowCount[u] = 4 /\ denyCount[u] = 1
        /\ users[u].lastLogin > 0
        /\ req[s].kind = "protected" /\ req[s].userId = u
        /\ req[s].body = "Payment required" /\ req[s].snapCount = 4

\* C10: a GET /protected request without a cookie, or with a cookie whose
\* signature or token does not verify, is answered 401 with a non-empty
\* signInUrl by the middleware and changes no User row and creates no
\* payment session; a request that gets past the middleware runs with the
\* userId bound in its credential
C10_MiddlewareGuards ==
    [][\A s \in Slots :
          (req'[s] # req[s] /\ req'[s].kind = "protected") =>
              IF \/ req'[s].cookie = NoCookie
                 \/ req'[s].cookie.sig # "secret"
                 \/ req'[s].cookie.token.key # "secret"
              THEN /\ req'[s].pc = "done"
                   /\ req'[s].status = 401
                   /\ req'[s].signInUrl # ""
                   /\ users' = users
                   /\ sessions' = sessions
              ELSE /\ req'[s].status # 401
                   /\ req'[s].userId = req'[s].cookie.token.userId
                   /\ req'[s].cookie \in cookies]_vars

\* a cookie with a valid cookie signature around a forged token for an
\* existing user was answered 401
C10_Witness ==
    \E s \in Slots :
        /\ req[s].kind = "protected" /\ req[s].pc = "done"
        /\ req[s].cookie.sig = "secret" /\ req[s].cookie.token.key = "forged"
        /\ req[s].cookie.token.userId \in DOMAIN users
        /\ req[s].status = 401 /\ req[s].body = "Invalid token"
        /\ req[s].signInUrl # ""

\* C11: a GET /protected request that decides REQUIRE_PAYMENT writes nothing
\* to the ledger, neither when it takes the decision nor when it creates the
\* payment session: every field of every User row is as before; its response
\* carries the payment session's redirect target and is never the ALLOW
\* message
C11_RequirePaymentFrame ==
    [][\A s \in Slots :
          (/\ req'[s] # req[s]
           /\ req'[s].kind = "protected"
           /\ (req'[s].pc = "checkout" \/ req[s].pc = "checkout")) =>
              /\ users' = users
              /\ req[s].pc = "checkout" =>
                    /\ req'[s].pc = "done"
                    /\ req'[s].body = "Payment required"
                    /\ req'[s].body # "You are authenticated"
                    /\ req'[s].sessionRef # NullRef
                    /\ req'[s].sessionRef \in sessions']_vars

\* a request of a user whose free quota is used up and who has not paid was
\* answered "Payment required" with a session, the row still at the quota
C11_Witness ==
    \E s \in Slots :
        /\ req[s].kind = "protected" /\ req[s].pc = "done"
        /\ req[s].body = "Payment required"
        /\ req[s].sessionRef = req[s].userId
        /\ req[s].userId \in DOMAIN users
        /\ users[req[s].userId].requestCount = FREE_QUOTA
        /\ users[req[s].userId].paidUntil = NullDate
        /\ denyCount[req[s].userId] = 1

\* C12: paidUntil of a user changes only in the step of a POST /webhook
\* request that carries a verified completed-checkout event for that user;
\* no step of a GET /oauth/callback or GET /protected request changes the
\* paidUntil of any user, and the ALLOW step changes nothing but requestCount
\* and lastLogin of the requesting user
C12_PaidUntilWrittenByWebhookOnly ==
    [][/\ \A u \in DOMAIN users :
              (u \in DOMAIN users' /\ users'[u].paidUntil # users[u].paidUntil) =>
                  \E s \in Slots :
                      /\ req[s].kind = "webhook" /\ req[s].pc = "update"
                      /\ req'[s].pc = "done"
                      /\ req[s].verified
                      /\ req[s].evType = "checkout.session.completed"
                      /\ req[s].userId = u
       /\ \A s \in Slots :
              (req'[s] # req[s] /\ req'[s].kind \in {"oauth", "protected"}) =>
                  /\ DOMAIN users \subseteq DOMAIN users'
                  /\ \A u \in DOMAIN users : users'[u].paidUntil = users[u].paidUntil
                  /\ \A u \in DOMAIN users' \ DOMAIN users :
                         users'[u].paidUntil = NullDate
       /\ \A s \in Slots :
              (/\ req[s].kind = "protected" /\ req[s].pc = "update"
               /\ req'[s].body = "You are authenticated") =>
                  /\ DOMAIN users' = DOMAIN users
                  /\ \A u \in DOMAIN users :
                         IF u = req[s].userId
                         THEN /\ users'[u].email = users[u].email
                              /\ users'[u].paidUntil = users[u].paidUntil
                         ELSE users'[u] = users[u]]_vars

\* a paying user past the free quota was allowed and has signed in again,
\* the paid window still the one the webhook wrote
C12_Witness ==
    /\ 1 \in DOMAIN users
    /\ paidAt[1] # NullDate
    /\ users[1].paidUntil = EndOfDay(paidAt[1])
    /\ users[1].requestCount = FREE_QUOTA + 1
    /\ \E s \in Slots :
           /\ req[s].kind = "oauth" /\ req[s].pc = "done"
           /\ req[s].status = 302 /\ req[s].userId = 1

\* C13: a POST /webhook request whose signature verifies and whose event is
\* not a completed checkout is answered 200 { received: true } in the step
\* that receives it and changes no field of any User row
C13_OtherEventsAcknowledgedOnly ==
    [][\A s \in Slots :
          (/\ req'[s] # req[s]
           /\ req'[s].kind = "webhook"
           /\ req'[s].genuine
           /\ req'[s].evType # "checkout.session.completed") =>
              /\ req'[s].pc = "done"
              /\ req'[s].status = 200
              /\ req'[s].body = "received"
              /\ users' = users
              /\ paidAt' = paidAt]_vars

\* a correctly signed payment_intent.succeeded event naming an existing user
\* was acknowledged, the user has no paid window
C13_Witness ==
    \E s \in Slots :
        /\ req[s].kind = "webhook" /\ req[s].pc = "done"
        /\ req[s].genuine /\ req[s].verified
        /\ req[s].evType = "payment_intent.succeeded"
        /\ req[s].userId \in DOMAIN users
        /\ users[req[s].userId].paidUntil = NullDate
        /\ req[s].status = 200 /\ req[s].body = "received"

\* C14: requestCount of a user never decreases, and once it has reached 4
\* every decision of a GET /protected request of that user, taken at a time
\* when the user's paidUntil is absent or not later than the decision time,
\* is REQUIRE_PAYMENT
C14_QuotaPermanentlyExceeded ==
    [][/\ \A u \in DOMAIN users :
              u \in DOMAIN users' /\ users'[u].requestCount >= users[u].requestCount
       /\ \A s \in Slots :
              (/\ req[s].kind = "protected" /\ req[s].pc = "decide"
               /\ req'[s].pc # "decide"
               /\ req[s].userId \in DOMAIN users
               /\ users[req[s].userId].requestCount >= 4
               /\ \/ users[req[s].userId].paidUntil = NullDate
                  \/ users[req[s].userId].paidUntil <= clock) =>
                  req'[s].pc = "checkout"]_vars

\* C15: a failure of an external call made while GET /oauth/callback, POST
\* /webhook or GET /protected is handled is caught by the handler itself: no
\* request is answered by the framework's error handler
C15_FailuresCaughtInHandler ==
    \A s \in Slots :
        req[s].pc = "done" =>
            ~(req[s].status = 500 /\ req[s].body = "Internal Server Error")

\* C16: once no GET /protected request of a user is in flight, the user's
\* lastLogin is not older than the decision time (now) of any of the user's
\* allowed requests, whatever the order in which their writes landed
C16_LastLoginIsLatestAllowed ==
    \A u \in DOMAIN users :
        ~ProtectedInFlight(u) =>
            \A s \in Slots :
                (/\ req[s].kind = "protected" /\ req[s].pc = "done"
                 /\ req[s].userId = u
                 /\ req[s].body = "You are authenticated") =>
                    users[u].lastLogin >= req[s].now

\* C17: a GET /oauth/callback request that was answered with the error
\* response (500) has left the ledger as it found it: it created no User row,
\* whichever of its steps failed
C17_FailedSignInLeavesLedger ==
    \A s \in Slots :
        (req[s].kind = "oauth" /\ req[s].pc = "done" /\ req[s].status = 500) =>
            ~req[s].created

\* C18: no step of a GET /oauth/callback request changes an existing User
\* row; its creation step adds exactly one row, with the request's email,
\* requestCount 0 and no paidUntil, when no row holds that email, and adds
\* nothing when a row holds it; the credential issued with the redirect binds
\* the id of the one row that holds the request's email
C18_GetOrCreateFrame ==
    [][\A s \in Slots :
          (req'[s] # req[s] /\ req'[s].kind = "oauth") =>
              /\ \A u \in DOMAIN users : u \in DOMAIN users' /\ users'[u] = users[u]
              /\ IF req[s].pc = "create" /\ req'[s].pc = "sign"
                 THEN /\ \A u \in DOMAIN users : users[u].email # req[s].email
                      /\ Cardinality(DOMAIN users') = Cardinality(DOMAIN users) + 1
                      /\ \A u \in DOMAIN users' \ DOMAIN users :
                             /\ users'[u].email = req[s].email
                             /\ users'[u].requestCount = 0
                             /\ users'[u].paidUntil = NullDate
                             /\ req'[s].userId = u
                 ELSE DOMAIN users' = DOMAIN users
              /\ (req[s].pc = "find" /\ \E u \in DOMAIN users : users[u].email = req[s].email)
                    => req'[s].pc = "sign"
              /\ req'[s].status = 302 =>
                    /\ req'[s].cookie # NoCookie
                    /\ req'[s].cookie.sig = "secret"
                    /\ req'[s].cookie.token.key = "secret"
                    /\ \A u \in DOMAIN users' :
                           users'[u].email = req'[s].email
                               <=> u = req'[s].cookie.token.userId]_vars

\* the returning user has signed in again, the row still at the used-up quota
\* and the paid window, and the new email has got a row of its own
C18_Witness ==
    /\ DOMAIN users = {1, 2}
    /\ users[1].requestCount = FREE_QUOTA /\ users[1].paidUntil = EndOfDay(0)
    /\ users[2] = [email |-> "b@x", requestCount |-> 0, lastLogin |-> users[2].lastLogin,
                   paidUntil |-> NullDate]
    /\ \E s, t \in Slots :
           /\ req[s].kind = "oauth" /\ req[s].pc = "done" /\ req[s].status = 302
           /\ req[s].email = "a@x" /\ req[s].cookie.token.userId = 1 /\ ~req[s].created
           /\ req[t].kind = "oauth" /\ req[t].pc = "done" /\ req[t].status = 302
           /\ req[t].email = "b@x" /\ req[t].cookie.token.userId = 2 /\ req[t].created

====
